---- MODULE Spec2Model ----
(***************************************************************************)
(* Graphical-password accounts (accounts/views.py, accounts/models.py).    *)
(*                                                                         *)
(* The store is the two tables the views read and write: the framework's   *)
(* User table and the GraphicalPassword table.  A string is a finite       *)
(* sequence of symbols; the symbol "," is the comma, every other symbol    *)
(* stands for a comma-free run of characters (an image file name, a block  *)
(* of hexadecimal digits).  SHA-256 is modelled as a collision-free        *)
(* function: the digest of m is the tagged message itself.                 *)
(***************************************************************************)
EXTENDS Integers, Sequences, FiniteSets, TLC

VARIABLES users, graphical_passwords, nextId, session, response, registered,
          requests, hashrun

vars == <<users, graphical_passwords, nextId, session, response, registered,
          requests, hashrun>>

store == <<users, graphical_passwords, nextId>>

(***************************************************************************)
(* Bounds of the model.                                                    *)
(***************************************************************************)
MaxUsers == 2
MaxTokens == 7
MaxRequests == 2
MaxHashLen == 3

(***************************************************************************)
(* Program constants.                                                      *)
(***************************************************************************)
MinImages == 4
MaxImages == 6

InvalidEmail == "Invalid EMAIL"
MissingGraphicalPassword == "Please select your graphical password (4-6 images)"
InvalidSequenceLength == "Please select between 4 to 6 images for your graphical password"
DuplicateUsername == "Username already exists"
DuplicateEmail == "Email already registered"
RegistrationSuccessful == "Registration successful! Please login."

LoginMissingGraphicalPassword == "Please select your graphical password"
InvalidCredentials == "Invalid username or password"
CredentialNotConfigured == "Graphical password not set for this user"
InvalidGraphicalPassword == "Invalid graphical password"
WelcomeBack == "Welcome back"
LoggedOut == "You have been logged out"

\* An exception no view catches: the request ends in a server error, with
\* no message and no redirect.
IntegrityError == "IntegrityError"
DatabaseError == "DatabaseError"

RegisterErrors ==
    {InvalidEmail, MissingGraphicalPassword, InvalidSequenceLength,
     DuplicateUsername, DuplicateEmail}

LoginErrors ==
    {LoginMissingGraphicalPassword, InvalidCredentials,
     CredentialNotConfigured, InvalidGraphicalPassword}

(***************************************************************************)
(* Strings.                                                                *)
(***************************************************************************)
Comma == ","

HasComma(s) == \E i \in 1..Len(s) : s[i] = Comma

FirstComma(s) == CHOOSE i \in 1..Len(s) : s[i] = Comma /\ \A j \in 1..(i-1) : s[j] # Comma

\* str.split(','): the pieces between the commas, empty pieces included;
\* the empty string splits into one empty piece.
RECURSIVE split(_)
split(s) ==
    IF ~HasComma(s) THEN <<s>>
    ELSE <<SubSeq(s, 1, FirstComma(s) - 1)>> \o split(SubSeq(s, FirstComma(s) + 1, Len(s)))

\* ','.join(tokens): what the form submits for an ordered selection.
RECURSIVE join(_)
join(tokens) ==
    IF Len(tokens) = 0 THEN <<>>
    ELSE IF Len(tokens) = 1 THEN tokens[1]
    ELSE tokens[1] \o <<Comma>> \o join(Tail(tokens))

\* hashlib.sha256(m).hexdigest(), collision-free.
sha256(m) == [sha256 |-> m]

\* Every ordering of the pieces of a string.
Orderings(pieces) ==
    {[i \in 1..Len(pieces) |-> pieces[p[i]]] : p \in Permutations(1..Len(pieces))}

\* sorted(pieces): one fixed ordering for all the orderings of the same pieces.
sorted(pieces) == CHOOSE t \in Orderings(pieces) : TRUE

\* A variant that normalises the order of the images before hashing.
hash_image_sequence_sorted(sequence, salt) == sha256(join(sorted(split(sequence))) \o salt)

hash_image_sequence(sequence, salt) == sha256(sequence \o salt)

(***************************************************************************)
(* Inputs of the requests.                                                 *)
(***************************************************************************)
Usernames == {"alice", "bob"}
ValidEmails == {"alice@example.com", "bob@example.com"}
Emails == ValidEmails \cup {"not-an-email"}
Passwords == {"TestPassword123", "WrongPassword123"}
Salts == {<<"salt1">>, <<"salt2">>}

Images == <<"anonymity.png", "bitcoin.png", "blackcoin.png", "block_chain.png">>

\* The first n images of the catalogue, in order, round and round.
Forward(n) == [i \in 1..n |-> <<Images[((i - 1) % Len(Images)) + 1]>>]
Backward(n) == [i \in 1..n |-> Forward(n)[n + 1 - i]]
Same(n) == [i \in 1..n |-> <<Images[1]>>]
Blank(n) == [i \in 1..n |-> <<>>]

\* The sequences the login scenarios submit: none, one of four images, the
\* same four reversed.
AuthSequences == {join(Forward(0)), join(Forward(MinImages)), join(Backward(MinImages))}

\* One sequence of every length up to MaxTokens, and the degenerate ones.
LengthSequences ==
    {join(Forward(n)) : n \in 0..MaxTokens}
        \cup {join(Same(MinImages)), join(Blank(MinImages))}

(***************************************************************************)
(* The store: django.contrib.auth's User table and the GraphicalPassword   *)
(* table.  User.username is unique in the database, User.email is not;     *)
(* GraphicalPassword.user is a one-to-one key.                             *)
(***************************************************************************)
None == [id |-> 0]

\* validate_email(email) raises ValidationError
validate_email_fails(email) == email \notin ValidEmails

\* User.objects.filter(username=username).exists()
username_exists(username, U) == \E u \in U : u.username = username

\* User.objects.filter(email=email).exists()
email_exists(email, U) == \E u \in U : u.email = email

\* User.objects.create_user(...) raises IntegrityError: the unique constraint
\* on username.
create_user_fails(username, U) == \E u \in U : u.username = username

\* User.objects.create_user(username, email, password); user.save()
create_user(id, username, email, password) ==
    [id |-> id, username |-> username, email |-> email, password |-> password]

\* authenticate(username=username, password=password): the user, or None
authenticate(username, password, U) ==
    IF \E u \in U : u.username = username /\ u.password = password
    THEN CHOOSE u \in U : u.username = username /\ u.password = password
    ELSE None

\* GraphicalPassword.objects.get(user=user): the rows of the user (none:
\* DoesNotExist)
get_graphical_password(user, GP) == {gp \in GP : gp.user = user.id}

\* A variant that stores the digest of the sequence without the salt.
new_graphical_password_unsalted(user, graphical_password, salt) ==
    [user |-> user.id,
     image_sequence_hash |-> hash_image_sequence(graphical_password, <<>>),
     salt |-> salt]

\* hashed_sequence = hash_image_sequence(graphical_password, salt);
\* GraphicalPassword.objects.create(user, image_sequence_hash, salt)
new_graphical_password(user, graphical_password, salt) ==
    [user |-> user.id,
     image_sequence_hash |-> hash_image_sequence(graphical_password, salt),
     salt |-> salt]

\* A variant that updates the rows already stored instead of adding one
\* (an update_or_create that does not filter by user).
objects_create_overwriting(table, row) ==
    IF table = {} THEN {row}
    ELSE {[gp EXCEPT !.image_sequence_hash = row.image_sequence_hash,
                     !.salt = row.salt] : gp \in table}

\* GraphicalPassword.objects.create(...): one more row, the others untouched.
objects_create(table, row) == table \cup {row}

\* A variant without the cascade (on_delete=DO_NOTHING).
cascade_nothing(table, user) == table

\* on_delete=models.CASCADE: the rows of a deleted account go with it.
cascade(table, user) == {gp \in table : gp.user # user.id}

\* A variant that leaves the session as it is.
auth_logout_keeps_session(s) == s

\* auth.logout(request): the session names no account any more.
auth_logout(s) == 0

(***************************************************************************)
(* The views.                                                              *)
(***************************************************************************)
NoError == "none"

Response(view, username, email, password, graphical_password, message, redirect) ==
    [view |-> view, username |-> username, email |-> email, password |-> password,
     graphical_password |-> graphical_password, message |-> message,
     redirect |-> redirect]

NoResponse == Response("none", "", "", "", <<>>, NoError, "")

\* A variant with the lower bound off by one.
image_count_rejected_off_by_one(images) ==
    Len(images) <= MinImages \/ Len(images) > MaxImages

\* len(images) < 4 or len(images) > 6
image_count_rejected(images) ==
    Len(images) < MinImages \/ Len(images) > MaxImages

\* register, the checks that read no table: the email, then the sequence.
validation_error(email, graphical_password) ==
    IF validate_email_fails(email) THEN InvalidEmail
    ELSE IF graphical_password = <<>> THEN MissingGraphicalPassword
    ELSE IF image_count_rejected(split(graphical_password)) THEN InvalidSequenceLength
    ELSE NoError

\* A variant that looks the username up before it validates the request.
register_error_username_first(username, email, graphical_password, U) ==
    IF username_exists(username, U) THEN DuplicateUsername
    ELSE IF validation_error(email, graphical_password) # NoError
         THEN validation_error(email, graphical_password)
    ELSE IF email_exists(email, U) THEN DuplicateEmail
    ELSE NoError

\* A variant that leaves the duplicate username to the database.
register_error_no_username_check(username, email, graphical_password, U) ==
    IF validation_error(email, graphical_password) # NoError
    THEN validation_error(email, graphical_password)
    ELSE IF email_exists(email, U) THEN DuplicateEmail
    ELSE NoError

\* register, the message of the first check that fails.
register_error(username, email, graphical_password, U) ==
    IF validation_error(email, graphical_password) # NoError
    THEN validation_error(email, graphical_password)
    ELSE IF username_exists(username, U) THEN DuplicateUsername
    ELSE IF email_exists(email, U) THEN DuplicateEmail
    ELSE NoError

\* A variant that creates the account before it looks for the email.
reaches_create_user_before_email_check(error) == error \in {NoError, DuplicateEmail}

\* register reaches create_user only past every early return.
reaches_create_user(error) == error = NoError

\* gp = GraphicalPassword.objects.get(user=user);
\* hash_image_sequence(graphical_password, gp.salt) == gp.image_sequence_hash
graphical_password_matches(graphical_password, gp) ==
    hash_image_sequence(graphical_password, gp.salt) = gp.image_sequence_hash

\* A variant that accepts the password alone when the sequence is wrong.
login_error_password_only(username, password, graphical_password, U, GP) ==
    IF graphical_password = <<>> THEN LoginMissingGraphicalPassword
    ELSE IF authenticate(username, password, U) = None THEN InvalidCredentials
    ELSE IF get_graphical_password(authenticate(username, password, U), GP) = {}
         THEN CredentialNotConfigured
    ELSE NoError

\* A variant that authenticates before it looks at the sequence.
login_error_password_first(username, password, graphical_password, U, GP) ==
    IF authenticate(username, password, U) = None THEN InvalidCredentials
    ELSE IF graphical_password = <<>> THEN LoginMissingGraphicalPassword
    ELSE IF get_graphical_password(authenticate(username, password, U), GP) = {}
         THEN CredentialNotConfigured
    ELSE IF \E gp \in get_graphical_password(authenticate(username, password, U), GP) :
                graphical_password_matches(graphical_password, gp)
         THEN NoError
    ELSE InvalidGraphicalPassword

\* A variant that looks for the graphical password of the username before
\* it authenticates.
login_error_credential_first(username, password, graphical_password, U, GP) ==
    IF graphical_password = <<>> THEN LoginMissingGraphicalPassword
    ELSE IF \E u \in U : u.username = username /\ get_graphical_password(u, GP) = {}
         THEN CredentialNotConfigured
    ELSE IF authenticate(username, password, U) = None THEN InvalidCredentials
    ELSE IF \E gp \in get_graphical_password(authenticate(username, password, U), GP) :
                graphical_password_matches(graphical_password, gp)
         THEN NoError
    ELSE InvalidGraphicalPassword

\* A variant that checks the number of images at login as register does.
login_error_length_checked(username, password, graphical_password, U, GP) ==
    IF graphical_password = <<>> \/ image_count_rejected(split(graphical_password))
    THEN LoginMissingGraphicalPassword
    ELSE IF authenticate(username, password, U) = None THEN InvalidCredentials
    ELSE IF get_graphical_password(authenticate(username, password, U), GP) = {}
         THEN CredentialNotConfigured
    ELSE IF \E gp \in get_graphical_password(authenticate(username, password, U), GP) :
                graphical_password_matches(graphical_password, gp)
         THEN NoError
    ELSE InvalidGraphicalPassword

\* login, the message of the first check that fails.
login_error(username, password, graphical_password, U, GP) ==
    IF graphical_password = <<>> THEN LoginMissingGraphicalPassword
    ELSE IF authenticate(username, password, U) = None THEN InvalidCredentials
    ELSE IF get_graphical_password(authenticate(username, password, U), GP) = {}
         THEN CredentialNotConfigured
    ELSE IF \E gp \in get_graphical_password(authenticate(username, password, U), GP) :
                graphical_password_matches(graphical_password, gp)
         THEN NoError
    ELSE InvalidGraphicalPassword

\* request.user: the account the session names, AnonymousUser if none.
request_user ==
    IF \E u \in users : u.id = session
    THEN CHOOSE u \in users : u.id = session
    ELSE None

Init ==
    /\ users = {}
    /\ graphical_passwords = {}
    /\ nextId = 1
    /\ session = 0
    /\ response = NoResponse
    /\ registered = {}
    /\ requests = [r \in 1..MaxRequests |-> [pc |-> "idle"]]
    /\ hashrun = [pc |-> "idle"]

\* POST /register, served alone.
register(username, email, password, graphical_password, S) ==
    LET error == register_error(username, email, graphical_password, users)
        user == create_user(nextId, username, email, password)
        reply(message, redirect) ==
            Response("register", username, email, password, graphical_password,
                     message, redirect)
    IN  /\ IF ~reaches_create_user(error)
           THEN /\ response' = reply(error, "register")
                /\ UNCHANGED <<users, graphical_passwords, nextId, registered>>
           ELSE IF create_user_fails(username, users)
           THEN /\ response' = reply(IntegrityError, "")
                /\ UNCHANGED <<users, graphical_passwords, nextId, registered>>
           ELSE /\ nextId <= MaxUsers
                /\ users' = users \cup {user}
                /\ nextId' = nextId + 1
                /\ \E salt \in S :
                       graphical_passwords' = objects_create(graphical_passwords,
                           new_graphical_password(user, graphical_password, salt))
                /\ registered' = registered
                       \cup {[id |-> user.id, username |-> username, password |-> password,
                              graphical_password |-> graphical_password]}
                /\ response' = IF error # NoError THEN reply(error, "register")
                                ELSE reply(RegistrationSuccessful, "login")
        /\ UNCHANGED <<session, requests, hashrun>>

\* POST /login
login(username, password, graphical_password) ==
    LET error == login_error(username, password, graphical_password,
                             users, graphical_passwords)
        reply(message, redirect) ==
            Response("login", username, "", password, graphical_password,
                     message, redirect)
    IN  /\ IF error = NoError
           THEN /\ session' = authenticate(username, password, users).id
                /\ response' = reply(WelcomeBack, "/")
           ELSE /\ session' = session
                /\ response' = reply(error, "login")
        /\ UNCHANGED <<users, graphical_passwords, nextId, registered, requests, hashrun>>

\* GET /logout, behind login_required(login_url='login')
logout ==
    /\ IF request_user = None
       THEN /\ session' = session
            /\ response' = Response("logout", "", "", "", <<>>, NoError, "login")
       ELSE /\ session' = auth_logout(session)
            /\ response' = Response("logout", "", "", "", <<>>, LoggedOut, "/")
    /\ UNCHANGED <<users, graphical_passwords, nextId, registered, requests, hashrun>>

\* User.objects.create_user(...) on its own, as the test set-up and the
\* framework's createsuperuser do: an account without a graphical password.
add_user(username, email, password) ==
    /\ ~create_user_fails(username, users)
    /\ nextId <= MaxUsers
    /\ users' = users \cup {create_user(nextId, username, email, password)}
    /\ nextId' = nextId + 1
    /\ response' = Response("add_user", "", "", "", <<>>, NoError, "")
    /\ UNCHANGED <<graphical_passwords, session, registered, requests, hashrun>>

ServeOne(U, E, P, G, S) ==
    \/ \E username \in U, email \in E, password \in P, graphical_password \in G :
           register(username, email, password, graphical_password, S)
    \/ \E username \in U, password \in P, graphical_password \in G :
           login(username, password, graphical_password)
    \/ logout
    \/ \E username \in U, email \in E, password \in P :
           add_user(username, email, password)

\* Requests served one at a time, with the sequences of the login scenarios.
Next == ServeOne(Usernames, Emails, Passwords, AuthSequences, Salts)

Spec == Init /\ [][Next]_vars

\* Requests served one at a time, with a sequence of every length.
LengthNext ==
    ServeOne(Usernames, Emails, {"TestPassword123"}, LengthSequences, {<<"salt1">>})

LengthSpec == Init /\ [][LengthNext]_vars

\* user.delete() from the admin site: the account goes, and with it the row
\* that refers to it.
delete_user(user) ==
    /\ user \in users
    /\ users' = users \ {user}
    /\ graphical_passwords' = cascade(graphical_passwords, user)
    /\ response' = Response("delete_user", "", "", "", <<>>, NoError, "")
    /\ UNCHANGED <<nextId, session, registered, requests, hashrun>>

\* Requests served one at a time while the admin site deletes accounts.
AdminNext ==
    \/ ServeOne(Usernames, ValidEmails, {"TestPassword123"},
                {join(Forward(0)), join(Forward(MinImages))}, Salts)
    \/ \E user \in users : delete_user(user)

AdminSpec == Init /\ [][AdminNext]_vars

(***************************************************************************)
(* Concurrent register requests: each request runs the statements of       *)
(* register in order, and the requests interleave between any two          *)
(* statements that touch the store (the view opens no transaction, so      *)
(* every query commits on its own).                                        *)
(***************************************************************************)
ConcurrentSequences == {join(Forward(0)), join(Forward(MinImages))}

Running(r, pc) == requests[r].pc = pc

Finish(r, message, redirect) ==
    requests' = [requests EXCEPT ![r] = [@ EXCEPT !.pc = "done", !.message = message,
                                                  !.redirect = redirect]]

Goto(r, pc) == requests' = [requests EXCEPT ![r] = [@ EXCEPT !.pc = pc]]

\* The request arrives; the checks of the email and of the sequence.
receive(r, username, email, password, graphical_password) ==
    /\ Running(r, "idle")
    /\ requests' = [requests EXCEPT ![r] =
           [pc |-> IF validation_error(email, graphical_password) # NoError
                   THEN "done" ELSE "check_username",
            username |-> username, email |-> email, password |-> password,
            graphical_password |-> graphical_password, user |-> None,
            message |-> validation_error(email, graphical_password),
            redirect |-> IF validation_error(email, graphical_password) # NoError
                         THEN "register" ELSE ""]]
    /\ UNCHANGED <<users, graphical_passwords, nextId, session, response, registered, hashrun>>

\* if User.objects.filter(username=username).exists()
check_username(r) ==
    /\ Running(r, "check_username")
    /\ IF username_exists(requests[r].username, users)
       THEN Finish(r, DuplicateUsername, "register")
       ELSE Goto(r, "check_email")
    /\ UNCHANGED <<users, graphical_passwords, nextId, session, response, registered, hashrun>>

\* elif User.objects.filter(email=email).exists()
check_email(r) ==
    /\ Running(r, "check_email")
    /\ IF email_exists(requests[r].email, users)
       THEN Finish(r, DuplicateEmail, "register")
       ELSE Goto(r, "create_user")
    /\ UNCHANGED <<users, graphical_passwords, nextId, session, response, registered, hashrun>>

\* user = User.objects.create_user(...); user.save()
insert_user(r) ==
    LET req == requests[r]
        user == create_user(nextId, req.username, req.email, req.password)
    IN  /\ Running(r, "create_user")
        /\ IF create_user_fails(req.username, users)
           THEN /\ Finish(r, IntegrityError, "")
                /\ UNCHANGED <<users, nextId, registered>>
           ELSE /\ nextId <= MaxUsers
                /\ users' = users \cup {user}
                /\ nextId' = nextId + 1
                /\ registered' = registered
                       \cup {[id |-> user.id, username |-> req.username,
                              password |-> req.password,
                              graphical_password |-> req.graphical_password]}
                /\ requests' = [requests EXCEPT ![r] =
                                   [@ EXCEPT !.pc = "create_graphical_password",
                                             !.user = user]]
        /\ UNCHANGED <<graphical_passwords, session, response, hashrun>>

\* salt = secrets.token_hex(16); GraphicalPassword.objects.create(...)
insert_graphical_password(r, salt) ==
    LET req == requests[r]
    IN  /\ Running(r, "create_graphical_password")
        /\ graphical_passwords' = objects_create(graphical_passwords,
               new_graphical_password(req.user, req.graphical_password, salt))
        /\ Finish(r, RegistrationSuccessful, "login")
        /\ UNCHANGED <<users, nextId, session, response, registered, hashrun>>

\* GraphicalPassword.objects.create(...) raises (the store refuses the
\* insert): nothing in register catches it or removes the account.
insert_graphical_password_fails(r) ==
    /\ Running(r, "create_graphical_password")
    /\ Finish(r, DatabaseError, "")
    /\ UNCHANGED <<users, graphical_passwords, nextId, session, response, registered, hashrun>>

ConcurrentNext ==
    \E r \in 1..MaxRequests :
        \/ \E username \in Usernames, email \in ValidEmails,
              graphical_password \in ConcurrentSequences :
               receive(r, username, email, "TestPassword123", graphical_password)
        \/ check_username(r)
        \/ check_email(r)
        \/ insert_user(r)
        \/ \E salt \in Salts : insert_graphical_password(r, salt)
        \/ insert_graphical_password_fails(r)

ConcurrentSpec == Init /\ [][ConcurrentNext]_vars

(***************************************************************************)
(* hash_image_sequence on its own, over every pair of short strings.       *)
(***************************************************************************)
HashSymbols == {Images[1], Images[2], Comma}

HashStrings == UNION {[1..n -> HashSymbols] : n \in 0..MaxHashLen}

HashInit ==
    /\ users = {}
    /\ graphical_passwords = {}
    /\ nextId = 1
    /\ session = 0
    /\ response = NoResponse
    /\ registered = {}
    /\ requests = [r \in 1..MaxRequests |-> [pc |-> "idle"]]
    /\ hashrun \in [pc : {"input"}, first : HashStrings, second : HashStrings,
                    salt : Salts]

hash_both ==
    /\ hashrun.pc = "input"
    /\ hashrun' = [pc |-> "done", first |-> hashrun.first, second |-> hashrun.second,
                   salt |-> hashrun.salt,
                   first_digest |-> hash_image_sequence(hashrun.first, hashrun.salt),
                   second_digest |-> hash_image_sequence(hashrun.second, hashrun.salt)]
    /\ UNCHANGED <<users, graphical_passwords, nextId, session, response, registered,
                   requests>>

HashSpec == HashInit /\ [][hash_both]_vars

(***************************************************************************)
(* Vocabulary of the claims.                                               *)
(***************************************************************************)
\* The number of tokens of a submitted string: its commas plus one.
TokenCount(s) == Cardinality({i \in 1..Len(s) : s[i] = Comma}) + 1

\* The step serves a request to this view.
Served(view) == response'.view = view

\* The registration the submitted username belongs to, if any.
RegistrationsOf(username) == {r \in registered : r.username = username}

\* The login request of the step passes all three checks as the account u.
FullySucceedsAs(u) ==
    /\ u.username = response'.username
    /\ u.password = response'.password
    /\ \E gp \in graphical_passwords :
          /\ gp.user = u.id
          /\ sha256(response'.graphical_password \o gp.salt) = gp.image_sequence_hash

\* C1: a session is started only by a login request whose username and
\* password verify as the user, for whom a graphical password is stored, and
\* whose submitted sequence hashes with the stored salt to the stored hash;
\* a register request and a rejected login request leave the session alone.
C1_SessionOnlyByFullLogin ==
    [][ /\ ((session' # 0 /\ session' # session)
               \/ (Served("login") /\ response'.redirect = "/"))
           => /\ Served("login")
              /\ \E u \in users : u.id = session' /\ FullySucceedsAs(u)
        /\ (Served("register") \/ (Served("login") /\ response'.message \in LoginErrors))
           => session' = session
      ]_vars

C1_Witness ==
    /\ session # 0
    /\ response.view = "login"
    /\ response.redirect = "/"
    /\ Cardinality(users) = 2

\* C2: after a successful register request, a login request with the same
\* username, the same password and the same sequence string starts a session
\* for that account and redirects to '/'.
C2_RoundTrip ==
    [][ \A r \in registered :
          (/\ Served("login")
           /\ response'.username = r.username
           /\ response'.password = r.password
           /\ response'.graphical_password = r.graphical_password)
          => (session' = r.id /\ response'.redirect = "/"
              /\ response'.message = WelcomeBack)
      ]_vars

C2_Witness ==
    /\ response.view = "login"
    /\ session # 0
    /\ \E r \in registered :
          /\ r.id = session
          /\ r.username = response.username
          /\ r.password = response.password
          /\ r.graphical_password = response.graphical_password
          /\ r.graphical_password = join(Backward(MinImages))

\* C3: for an account with a stored graphical password, a login request with
\* the right username and password and a non-empty sequence other than the
\* registered one is answered 'Invalid graphical password', redirects to
\* login and leaves the session as it was.
C3_WrongSequenceRejected ==
    [][ \A r \in registered :
          (/\ Served("login")
           /\ response'.username = r.username
           /\ response'.password = r.password
           /\ response'.graphical_password # <<>>
           /\ response'.graphical_password # r.graphical_password
           /\ \E gp \in graphical_passwords : gp.user = r.id)
          => (/\ response'.message = InvalidGraphicalPassword
              /\ response'.redirect = "login"
              /\ session' = session)
      ]_vars

C3_Witness ==
    /\ response.view = "login"
    /\ response.message = InvalidGraphicalPassword
    /\ response.graphical_password = join(Backward(MinImages))
    /\ \E r \in registered :
          /\ r.username = response.username
          /\ r.graphical_password = join(Forward(MinImages))

\* C9: login reports the first failing check in the order: sequence missing,
\* then username or password wrong, then no graphical password stored, then
\* sequence wrong.
C9_LoginOrder ==
    [][ Served("login") =>
        LET req == response'
            verified == {u \in users : u.username = req.username
                                        /\ u.password = req.password}
            stored == {gp \in graphical_passwords : \E u \in verified : gp.user = u.id}
        IN  /\ req.graphical_password = <<>>
               => req.message = LoginMissingGraphicalPassword
            /\ (req.graphical_password # <<>> /\ verified = {})
               => req.message = InvalidCredentials
            /\ (req.graphical_password # <<>> /\ verified # {} /\ stored = {})
               => req.message = CredentialNotConfigured
            /\ req.message = InvalidGraphicalPassword
               => (req.graphical_password # <<>> /\ verified # {} /\ stored # {})
            /\ req.message \in LoginErrors \cup {WelcomeBack}
      ]_vars

\* A wrong password with the registered sequence, answered InvalidCredentials.
C9_Witness ==
    /\ response.view = "login"
    /\ response.message = InvalidCredentials
    /\ \E r \in registered :
          /\ r.username = response.username
          /\ r.graphical_password = response.graphical_password
          /\ r.password # response.password

\* C5: a register request rejected with one of the five errors leaves the
\* accounts and the graphical passwords exactly as they were and redirects
\* to the registration form.
C5_RejectedRegisterChangesNothing ==
    [][ (Served("register") /\ response'.message \in RegisterErrors)
        => (/\ users' = users
            /\ graphical_passwords' = graphical_passwords
            /\ response'.redirect = "register")
      ]_vars

\* A request rejected for its email although an account with another email
\* exists.
C5_Witness ==
    /\ response.view = "register"
    /\ response.message = DuplicateEmail
    /\ \E u \in users : u.email = response.email /\ u.username # response.username
    /\ ~ \E u \in users : u.username = response.username

\* C8: register reports the first that applies of: email invalid, sequence
\* missing, sequence length outside 4..6, username taken, email taken.
C8_RegisterOrder ==
    [][ Served("register") =>
        LET req == response'
            bad_email == req.email \notin ValidEmails
            missing == req.graphical_password = <<>>
            bad_length == TokenCount(req.graphical_password) \notin MinImages..MaxImages
            username_taken == \E u \in users : u.username = req.username
            email_taken == \E u \in users : u.email = req.email
        IN  req.message =
                IF bad_email THEN InvalidEmail
                ELSE IF missing THEN MissingGraphicalPassword
                ELSE IF bad_length THEN InvalidSequenceLength
                ELSE IF username_taken THEN DuplicateUsername
                ELSE IF email_taken THEN DuplicateEmail
                ELSE RegistrationSuccessful
      ]_vars

\* A request with a sequence too long, a username taken and an email taken,
\* answered with the error of the length.
C8_Witness ==
    /\ response.view = "register"
    /\ response.message = InvalidSequenceLength
    /\ TokenCount(response.graphical_password) > MaxImages
    /\ \E u \in users : u.username = response.username
    /\ \E u \in users : u.email = response.email

\* The request of the step has a valid email, and a username and an email
\* no account has.
FreshRegistration ==
    /\ Served("register")
    /\ response'.email \in ValidEmails
    /\ ~ \E u \in users : u.username = response'.username
    /\ ~ \E u \in users : u.email = response'.email

\* The request of the step created an account and its graphical password.
Accepted ==
    /\ response'.message = RegistrationSuccessful
    /\ response'.redirect = "login"
    /\ \E u \in users' \ users :
          /\ u.username = response'.username
          /\ users' = users \cup {u}
          /\ \E gp \in graphical_passwords' \ graphical_passwords :
                /\ gp.user = u.id
                /\ graphical_passwords' = graphical_passwords \cup {gp}

\* C10 as stated: a fresh registration is accepted exactly when its sequence
\* has 4 to 6 tokens, and every other length, the empty sequence included,
\* is rejected with InvalidSequenceLength.
C10_Original ==
    [][ FreshRegistration =>
        IF response'.graphical_password # <<>>
              /\ TokenCount(response'.graphical_password) \in MinImages..MaxImages
        THEN Accepted
        ELSE response'.message = InvalidSequenceLength /\ UNCHANGED store
      ]_vars

\* C10, amended: a fresh registration is accepted exactly when its sequence
\* has 4 to 6 tokens; a non-empty sequence of any other length is rejected
\* with InvalidSequenceLength, the empty sequence with
\* MissingGraphicalPassword.
C10_LengthBounds ==
    [][ FreshRegistration =>
        IF response'.graphical_password = <<>>
        THEN response'.message = MissingGraphicalPassword /\ UNCHANGED store
        ELSE IF TokenCount(response'.graphical_password) \in MinImages..MaxImages
        THEN Accepted
        ELSE response'.message = InvalidSequenceLength /\ UNCHANGED store
      ]_vars

\* Sequences of 4, 5 and 6 tokens are registered, after requests with 3 and
\* with 7 tokens were rejected.
C10_Witness ==
    /\ response.view = "register"
    /\ response.message = RegistrationSuccessful
    /\ TokenCount(response.graphical_password) = MaxImages
    /\ \E r \in registered : TokenCount(r.graphical_password) = MinImages

\* One sequence of tokens is the other in another order.
IsPermutation(t1, t2) == t2 \in Orderings(t1)

\* C4: with the same salt, two sequences of tokens that are permutations of
\* each other and not the same sequence have different digests.
C4_OrderSensitive ==
    (/\ hashrun.pc = "done"
     /\ split(hashrun.first) # split(hashrun.second)
     /\ IsPermutation(split(hashrun.first), split(hashrun.second)))
    => hashrun.first_digest # hashrun.second_digest

\* The digests of a three-token sequence and of its reverse.
C4_Witness ==
    /\ hashrun.pc = "done"
    /\ Len(split(hashrun.first)) >= 2
    /\ split(hashrun.first) # split(hashrun.second)
    /\ split(hashrun.second) = [i \in 1..Len(split(hashrun.first)) |->
           split(hashrun.first)[Len(split(hashrun.first)) + 1 - i]]
    /\ hashrun.first_digest # hashrun.second_digest

\* C6 as stated: once no register request is between its two inserts, every
\* account a register request created has a graphical password.
C6_AllOrNothing ==
    \A reg \in registered :
        \/ \E gp \in graphical_passwords : gp.user = reg.id
        \/ \E r \in 1..MaxRequests :
              Running(r, "create_graphical_password") /\ requests[r].user.id = reg.id

\* C7 as stated: no two accounts share a username and no two share an email.
C7_UniqueUsernameAndEmail ==
    \A u, v \in users :
        u.id # v.id => (u.username # v.username /\ u.email # v.email)

\* C11: a stored graphical password is never modified, replaced or removed
\* by a register, login or logout request: the row is still there, salt and
\* hash as they were, after the request.
C11_CredentialImmutable ==
    [][ (Served("register") \/ Served("login") \/ Served("logout"))
        => \A gp \in graphical_passwords : gp \in graphical_passwords'
      ]_vars

\* A second registration and the first account's row beside its own.
C11_Witness ==
    /\ response.view = "register"
    /\ response.message = RegistrationSuccessful
    /\ \E gp1, gp2 \in graphical_passwords :
          /\ gp1.user # gp2.user
          /\ gp1.salt # gp2.salt
          /\ gp1.image_sequence_hash # gp2.image_sequence_hash

\* C12: no account has more than one graphical password, and every graphical
\* password belongs to exactly one account that exists, also after accounts
\* were deleted.
C12_OneToOne ==
    /\ \A u \in users :
          Cardinality({gp \in graphical_passwords : gp.user = u.id}) <= 1
    /\ \A gp \in graphical_passwords :
          Cardinality({u \in users : u.id = gp.user}) = 1

\* A registered account was deleted, its row with it, and another account
\* keeps its row.
C12_Witness ==
    /\ \E r \in registered :
          /\ ~ \E u \in users : u.id = r.id
          /\ ~ \E gp \in graphical_passwords : gp.user = r.id
    /\ \E u \in users : \E gp \in graphical_passwords : gp.user = u.id

\* The sequence an account registered with.
RegisteredSequence(id) ==
    (CHOOSE r \in registered : r.id = id).graphical_password

\* Two rows of two accounts that registered the same sequence.
SameSequence(gp1, gp2) ==
    /\ gp1.user # gp2.user
    /\ \E r \in registered : r.id = gp1.user
    /\ \E r \in registered : r.id = gp2.user
    /\ RegisteredSequence(gp1.user) = RegisteredSequence(gp2.user)

C14_InvalidCredentialsUniform ==
    [][ (/\ Served("login")
         /\ response'.graphical_password # <<>>
         /\ ~ \E u \in users : u.username = response'.username
                               /\ u.password = response'.password)
        => (/\ response'.message = InvalidCredentials
            /\ response'.redirect = "login"
            /\ session' = session
            /\ UNCHANGED store
            /\ graphical_passwords' = graphical_passwords)
      ]_vars

\* A wrong password for an account without a graphical password, while the
\* other username is unknown.
C14_Witness ==
    /\ response.view = "login"
    /\ response.message = InvalidCredentials
    /\ \E u \in users :
          /\ u.username = response.username
          /\ u.password # response.password
          /\ ~ \E gp \in graphical_passwords : gp.user = u.id
    /\ \E username \in Usernames : ~ \E u \in users : u.username = username

\* The account has no graphical password.
Unconfigured(u, GP) == ~ \E gp \in GP : gp.user = u.id

\* The step serves a login request with the username and password of u.
LoginAs(u) ==
    /\ Served("login")
    /\ response'.username = u.username
    /\ response'.password = u.password

\* C15 as stated: for an account without a graphical password every login
\* request with the right password is answered CredentialNotConfigured, no
\* request gives it a graphical password, and a register request with its
\* username is answered DuplicateUsername.
C15_Original ==
    [][ \A u \in users :
          Unconfigured(u, graphical_passwords)
          => /\ LoginAs(u) => response'.message = CredentialNotConfigured
             /\ u \in users' /\ Unconfigured(u, graphical_passwords')
             /\ (Served("register") /\ response'.username = u.username)
                => response'.message = DuplicateUsername
      ]_vars

\* C15, amended: for an account without a graphical password every login
\* request with the right password is rejected and the session left alone,
\* with CredentialNotConfigured when a sequence was submitted and with the
\* missing-sequence error when none was; no request gives the account a
\* graphical password; a register request with its username is rejected and
\* creates nothing, with DuplicateUsername when its email and its sequence
\* pass the checks before.
C15_LockedOut ==
    [][ \A u \in users :
          Unconfigured(u, graphical_passwords)
          => /\ LoginAs(u)
                => /\ response'.message =
                        IF response'.graphical_password = <<>>
                        THEN LoginMissingGraphicalPassword
                        ELSE CredentialNotConfigured
                   /\ response'.redirect = "login"
                   /\ session' = session
             /\ u \in users' /\ Unconfigured(u, graphical_passwords')
             /\ (Served("register") /\ response'.username = u.username)
                => /\ response'.message \in RegisterErrors
                   /\ UNCHANGED store
                   /\ graphical_passwords' = graphical_passwords
                   /\ (/\ response'.email \in ValidEmails
                       /\ response'.graphical_password # <<>>
                       /\ TokenCount(response'.graphical_password) \in MinImages..MaxImages)
                      => response'.message = DuplicateUsername
      ]_vars

\* A valid register request with the username of an account that has no
\* graphical password, answered DuplicateUsername.
C15_Witness ==
    /\ response.view = "register"
    /\ response.message = DuplicateUsername
    /\ \E u \in users :
          /\ u.username = response.username
          /\ Unconfigured(u, graphical_passwords)
          /\ u.email # response.email

\* C16: register looks at nothing but the number of pieces between the
\* commas, so strings of empty or repeated pieces are stored when they have
\* 4 to 6 of them; login has no check of the length and accepts exactly the
\* string that was registered.
C16_OpaqueTokens ==
    [][ /\ (FreshRegistration /\ response'.graphical_password # <<>>)
           => IF TokenCount(response'.graphical_password) \in MinImages..MaxImages
              THEN /\ Accepted
                   /\ \E gp \in graphical_passwords' \ graphical_passwords :
                         gp.image_sequence_hash =
                             sha256(response'.graphical_password \o gp.salt)
              ELSE response'.message = InvalidSequenceLength
        /\ \A r \in registered :
              (/\ Served("login")
               /\ response'.username = r.username
               /\ response'.password = r.password
               /\ response'.graphical_password # <<>>
               /\ \E u \in users : u.id = r.id
               /\ \E gp \in graphical_passwords : gp.user = r.id)
              => IF response'.graphical_password = r.graphical_password
                 THEN response'.message = WelcomeBack /\ session' = r.id
                 ELSE response'.message = InvalidGraphicalPassword /\ session' = session
      ]_vars

\* A login with three commas and nothing else, accepted for an account that
\* registered that string, beside an account of one image four times.
C16_Witness ==
    /\ response.view = "login"
    /\ response.message = WelcomeBack
    /\ response.graphical_password = <<Comma, Comma, Comma>>
    /\ \E r \in registered : r.graphical_password = join(Same(MinImages))

\* C17: a logout request of a logged-in caller ends the session, and the
\* session stays ended until a login request passes all three checks; a
\* logout request of an anonymous caller is redirected to login and leaves
\* the session alone; neither touches an account or a graphical password.
C17_Logout ==
    [][ /\ Served("logout")
           => /\ IF \E u \in users : u.id = session
                 THEN session' = 0 /\ response'.redirect = "/"
                      /\ response'.message = LoggedOut
                 ELSE session' = session /\ response'.redirect = "login"
              /\ UNCHANGED store
              /\ graphical_passwords' = graphical_passwords
        /\ (session = 0 /\ session' # 0)
           => /\ Served("login")
              /\ \E u \in users : u.id = session' /\ FullySucceedsAs(u)
      ]_vars

\* Logged out, with both accounts still there.
C17_Witness ==
    /\ response.view = "logout"
    /\ response.message = LoggedOut
    /\ session = 0
    /\ Cardinality(graphical_passwords) = 2

====
